---- MODULE Spec2Model ----
(***************************************************************************)
(* Model of lib/lorentz_equivariant/layers/LConv.py:                       *)
(*   GroupLorentzConv2d (construction, forward, extract_lorentz_patches)   *)
(*   and the presets LorentzP4MConvZ2 / LorentzP4MConvP4M.                 *)
(*                                                                         *)
(* Encodings.                                                              *)
(*  - An int-or-pair argument (kernel_size, stride, padding, dilation) is  *)
(*    a tuple: <<n>> is the Python int n, <<a, b>> the Python pair (a, b); *)
(*    isinstance(v, int) is Len(v) = 1.                                    *)
(*  - The manifold is the record [sqrt_k |-> s]; its curvature k is s*s,   *)
(*    so k.sqrt() is the integer s and all arithmetic stays exact.         *)
(*  - A tensor entry is <<"val", v>> (the number v) or <<"sqrt", r>> (the  *)
(*    result of torch.sqrt on the radicand r; r < 0 is NaN).               *)
(*  - A tensor is kept as its shape plus the rows of one batch element;    *)
(*    every batch element of the input carries the same content.           *)
(***************************************************************************)
EXTENDS Integers, Sequences, FiniteSets, TLC

VARIABLES pc, req, ctor, layer, fwd

vars == <<pc, req, ctor, layer, fwd>>

\* ------------------------------------------------------------------ bounds
MaxInChannels == 3
MaxKernel == 2
MaxDim == 3
MaxPositional == 2
MaxTap == 3

\* ------------------------------------------------- sampled argument domains
StabilizerSizes == {1, 2, 4, 8}
KernelArgs == {<<n>> : n \in 0..MaxKernel} \cup {<<1, 2>>, <<2, 1>>}
OutChannelArgs == {2}
BatchSizes == {2}
Manifolds == {[sqrt_k |-> 2]}
\* stride, padding and dilation: every combination of the usable values, and
\* each unusable value (stride 0, padding -1, dilation 0) with the defaults
GeometryArgs ==
  {[stride |-> st, padding |-> pd, dilation |-> dl] :
     st \in {<<1>>, <<2>>, <<1, 2>>}, pd \in {<<0>>, <<1>>}, dl \in {<<1>>, <<2>>}}
  \cup {[stride |-> <<0>>, padding |-> <<0>>, dilation |-> <<1>>],
        [stride |-> <<1>>, padding |-> <<0 - 1>>, dilation |-> <<1>>],
        [stride |-> <<1>>, padding |-> <<0>>, dilation |-> <<0>>]}

NoLayer == [exists |-> FALSE]
NoCall == [status |-> "none"]

\* ------------------------------------------------------- Python call binding
Params ==
  <<"input_stabilizer_size", "output_stabilizer_size", "manifold",
    "in_channels", "out_channels", "kernel_size", "stride", "padding",
    "dilation", "bias", "LFC_normalize">>

ParamNames == {Params[i] : i \in 1..Len(Params)}

Defaults ==
  [stride |-> <<1>>, padding |-> <<0>>, dilation |-> <<1>>,
   bias |-> TRUE, LFC_normalize |-> FALSE]

ParamIndex(p) == CHOOSE i \in 1..Len(Params) : Params[i] = p

\* f(*args, **kwargs) for f = GroupLorentzConv2d.__init__ (self left out):
\* positional values fill the parameters in signature order, a keyword that
\* names an already filled parameter is a TypeError, and so is a parameter
\* left without a value and without a default.
Bind(args, kwargs) ==
  LET n == Len(args)
  IN IF n > Len(Params)
     THEN [status |-> "TypeError"]
     ELSE IF \E p \in DOMAIN kwargs : p \notin ParamNames
     THEN [status |-> "TypeError"]
     ELSE IF \E i \in 1..n : Params[i] \in DOMAIN kwargs
     THEN [status |-> "TypeError"]
     ELSE IF \E i \in (n + 1)..Len(Params) :
               Params[i] \notin DOMAIN kwargs /\ Params[i] \notin DOMAIN Defaults
     THEN [status |-> "TypeError"]
     ELSE [status |-> "ok",
           b |-> [p \in ParamNames |->
                    IF ParamIndex(p) <= n THEN args[ParamIndex(p)]
                    ELSE IF p \in DOMAIN kwargs THEN kwargs[p]
                    ELSE Defaults[p]]]

\* ------------------------------------------------------------ construction
Pair(v) == IF Len(v) = 1 THEN <<v[1], v[1]>> ELSE v

make_indices_functions ==
  [p \in {<<1, 4>>, <<4, 4>>, <<1, 8>>, <<8, 8>>} |->
     IF p = <<1, 4>> THEN "make_c4_z2_indices"
     ELSE IF p = <<4, 4>> THEN "make_c4_p4_indices"
     ELSE IF p = <<1, 8>> THEN "make_d4_z2_indices"
     ELSE "make_d4_p4m_indices"]

\* math.sqrt(2.0 / ((in_channels-1) * kh * kw)) and the uniform fills
reset_parameters(in_channels, kernel_size) ==
  LET d == (in_channels - 1) * kernel_size[1] * kernel_size[2]
  IN IF d = 0 THEN "ZeroDivisionError"
     ELSE IF d < 0 THEN "ValueError"
     ELSE "ok"

\* variant: an unknown pair falls back to a default generator
make_transformation_indices_default(iss, oss, kernel_size) ==
  [status |-> "ok",
   inds |-> [generator |-> IF <<iss, oss>> \in DOMAIN make_indices_functions
                           THEN make_indices_functions[<<iss, oss>>]
                           ELSE "make_c4_z2_indices",
             ksize |-> kernel_size[2]]]

make_transformation_indices(iss, oss, kernel_size) ==
  IF <<iss, oss>> \in DOMAIN make_indices_functions
  THEN [status |-> "ok",
        inds |-> [generator |-> make_indices_functions[<<iss, oss>>],
                  ksize |-> kernel_size[2]]]
  ELSE [status |-> "KeyError"]

\* EquivariantLinear construction(manifold, input_width, output_width, bias, normalize)
GroupLorentzFullyConnected(manifold, in_features, out_features, bias, normalize) ==
  [manifold |-> manifold, in_features |-> in_features,
   out_features |-> out_features, bias |-> bias, normalize |-> normalize]

\* GroupLorentzConv2d.__init__ on bound parameters b
GroupLorentzConv2d(b) ==
  LET stride == Pair(b["stride"])
      kernel_size == Pair(b["kernel_size"])
      padding == Pair(b["padding"])
      dilation == Pair(b["dilation"])
      kernel_len == kernel_size[1] * kernel_size[2]
      lin_features == ((b["in_channels"] - 1) * kernel_size[1] * kernel_size[2]) + 1
      rp == reset_parameters(b["in_channels"], kernel_size)
      ti == make_transformation_indices(b["input_stabilizer_size"],
                                        b["output_stabilizer_size"], kernel_size)
  IN IF rp # "ok" THEN [status |-> rp, layer |-> NoLayer]
     ELSE IF ti.status # "ok" THEN [status |-> ti.status, layer |-> NoLayer]
     ELSE [status |-> "ok",
           layer |->
             [exists |-> TRUE,
              input_stabilizer_size |-> b["input_stabilizer_size"],
              output_stabilizer_size |-> b["output_stabilizer_size"],
              manifold |-> b["manifold"],
              in_channels |-> b["in_channels"],
              out_channels |-> b["out_channels"],
              kernel_size |-> kernel_size,
              stride |-> stride,
              padding |-> padding,
              dilation |-> dilation,
              bias |-> b["bias"],
              kernel_len |-> kernel_len,
              linearized_kernel |->
                GroupLorentzFullyConnected(b["manifold"], lin_features,
                                           b["out_channels"], b["bias"],
                                           b["LFC_normalize"]),
              unfold |-> [kernel_size |-> kernel_size,
                          dilation |-> Pair(b["dilation"]),
                          padding |-> Pair(b["padding"]),
                          stride |-> Pair(b["stride"])],
              inds |-> ti.inds]]

\* a call cls(*args, **kwargs) of one of the three classes
Call(cls, args, kwargs) ==
  LET bound ==
        IF cls = "GroupLorentzConv2d" THEN Bind(args, kwargs)
        ELSE IF \E p \in {"input_stabilizer_size", "output_stabilizer_size"} :
                  p \in DOMAIN kwargs
        THEN [status |-> "TypeError"]
        ELSE Bind(args,
                  [p \in DOMAIN kwargs \cup {"input_stabilizer_size",
                                             "output_stabilizer_size"} |->
                     IF p = "input_stabilizer_size"
                     THEN (IF cls = "LorentzP4MConvZ2" THEN 1 ELSE 8)
                     ELSE IF p = "output_stabilizer_size" THEN 8
                     ELSE kwargs[p]])
  IN IF bound.status # "ok" THEN [status |-> bound.status, layer |-> NoLayer]
     ELSE GroupLorentzConv2d(bound.b)

\* ------------------------------------------------------------------ forward
\* content of the input x at (row i, column j, channel c), 0-based; the same
\* for every batch element. Channel 0 is the time coordinate.
XValue(i, j, c) == 100 * c + 10 * (i + 1) + (j + 1)

\* math.floor((dim + 2*padding - dilation*(kernel-1) - 1) / stride + 1);
\* the operands are small integers, so the float quotient is exact enough for
\* floor to agree with integer floor division.
OutSize(dim, padding, dilation, kernel, stride) ==
  ((dim + 2 * padding - dilation * (kernel - 1) - 1) \div stride) + 1

\* variant: the width is computed from the height settings
OutSizesSquare(L, h, w) ==
  <<OutSize(h, L.padding[1], L.dilation[1], L.kernel_size[1], L.stride[1]),
    OutSize(w, L.padding[1], L.dilation[1], L.kernel_size[1], L.stride[1])>>

OutSizes(L, h, w) ==
  <<OutSize(h, L.padding[1], L.dilation[1], L.kernel_size[1], L.stride[1]),
    OutSize(w, L.padding[2], L.dilation[2], L.kernel_size[2], L.stride[2])>>

\* start indices o of the windows that fit the padded axis: the window covers
\* the padded positions o*stride + t*dilation, t in 0..kernel-1
ValidStarts(dim, padding, dilation, kernel, stride) ==
  {o \in 0..(dim + 2 * padding) :
     o * stride + dilation * (kernel - 1) <= dim + 2 * padding - 1}

\* torch.nn.Unfold on x of shape (bsz, c, h, w): rows[l][ch*kh*kw + ki*kw + kj]
\* is the padded input of channel ch at kernel tap (ki, kj) of window l
Unfold(u, h, w, c) ==
  LET kh == u.kernel_size[1]
      kw == u.kernel_size[2]
  IN IF \/ kh <= 0 \/ kw <= 0
        \/ u.dilation[1] <= 0 \/ u.dilation[2] <= 0
        \/ u.padding[1] < 0 \/ u.padding[2] < 0
        \/ u.stride[1] <= 0 \/ u.stride[2] <= 0
     THEN [status |-> "RuntimeError", rows |-> <<>>, width |-> 0]
     ELSE
       LET oh == Cardinality(ValidStarts(h, u.padding[1], u.dilation[1], kh, u.stride[1]))
           ow == Cardinality(ValidStarts(w, u.padding[2], u.dilation[2], kw, u.stride[2]))
           At(l, f) ==
             LET ch == (f - 1) \div (kh * kw)
                 tap == (f - 1) % (kh * kw)
                 ii == ((l - 1) \div ow) * u.stride[1] - u.padding[1]
                         + (tap \div kw) * u.dilation[1]
                 jj == ((l - 1) % ow) * u.stride[2] - u.padding[2]
                         + (tap % kw) * u.dilation[2]
             IN IF ii >= 0 /\ ii < h /\ jj >= 0 /\ jj < w
                THEN XValue(ii, jj, ch) ELSE 0
       IN IF oh < 1 \/ ow < 1
          THEN [status |-> "RuntimeError", rows |-> <<>>, width |-> 0]
          ELSE [status |-> "ok",
                rows |-> [l \in 1..(oh * ow) |-> [f \in 1..(c * kh * kw) |-> At(l, f)]],
                width |-> c * kh * kw]

\* variant: no clamping
ClampNone(v, m) == v

\* torch.clamp(v, min=m)
Clamp(v, m) == IF v < m THEN m ELSE v

RECURSIVE SumSq(_, _, _)
\* torch.sum(clamp(row[1..n], min=m) ** 2)
SumSq(row, n, m) ==
  IF n = 0 THEN 0
  ELSE Clamp(row[n], m) * Clamp(row[n], m) + SumSq(row, n - 1, m)

\* variant: kernel_len*k is subtracted
TimeRadicandFullLen(row, kernel_len, sqrt_k) ==
  SumSq(row, kernel_len, sqrt_k) - (kernel_len * (sqrt_k * sqrt_k))

\* the radicand handed to torch.sqrt for one patch
TimeRadicand(row, kernel_len, sqrt_k) ==
  SumSq(row, kernel_len, sqrt_k) - ((kernel_len - 1) * (sqrt_k * sqrt_k))

\* variant: the spatial entries are left in unfold's order
SpaceKeep(space, g) == space

\* reshape(.., in_channels-1, -1).transpose(-1, -2).reshape(shape) of the
\* n spatial entries of one patch: entry q of the result is entry
\* (q mod g) * (n / g) + (q div g) of the input, g = in_channels - 1
SpacePermute(space, g) ==
  LET n == Len(space)
      m == n \div g
  IN [q \in 1..n |-> space[((q - 1) % g) * m + ((q - 1) \div g) + 1]]

\* extract_lorentz_patches on rows of the given width
extract_lorentz_patches(L, rows, width) ==
  LET kl == L.kernel_len
      g == L.in_channels - 1
      n == width - kl
  IN IF kl > width \/ n % g # 0
     THEN [status |-> "RuntimeError", rows |-> <<>>, width |-> 0]
     ELSE [status |-> "ok",
           rows |-> [l \in 1..Len(rows) |->
                       <<<<"sqrt", TimeRadicand(rows[l], kl, L.manifold.sqrt_k)>>>>
                       \o [q \in 1..n |->
                             <<"val", SpacePermute(SubSeq(rows[l], kl + 1, width), g)[q]>>]],
           width |-> n + 1]

\* EquivariantLinear call: (batch, num_patches, input_width) ->
\* (batch, num_patches, output_width)
linearized_kernel(lk, bsz, num_patches, width) ==
  IF width # lk.in_features
  THEN [status |-> "RuntimeError", shape |-> <<>>]
  ELSE [status |-> "ok", shape |-> <<bsz, num_patches, lk.out_features>>]

SeqProduct(s) ==
  LET RECURSIVE P(_)
      P(i) == IF i = 0 THEN 1 ELSE s[i] * P(i - 1)
  IN P(Len(s))

\* Tensor.view(shape): the same number of elements, or a RuntimeError
View(from_shape, to_shape) ==
  IF SeqProduct(from_shape) = SeqProduct(to_shape)
     /\ \A i \in 1..Len(to_shape) : to_shape[i] >= 0
  THEN [status |-> "ok", shape |-> to_shape]
  ELSE [status |-> "RuntimeError", shape |-> <<>>]

FwdRecord(status, stage, x_shape, sizes, pt, pk, lin_shape, out_shape) ==
  [status |-> status, stage |-> stage, x_shape |-> x_shape,
   h_out |-> sizes[1], w_out |-> sizes[2],
   patches |-> pt.rows, patches_width |-> pt.width,
   patches_pre_kernel |-> pk.rows, pre_kernel_width |-> pk.width,
   lin_shape |-> lin_shape, out_shape |-> out_shape]

NoRows == [rows |-> <<>>, width |-> 0]

\* GroupLorentzConv2d.forward on x of shape (bsz, h, w, c)
forward(L, bsz, h, w, c) ==
  LET xs == <<bsz, h, w, c>>
  IN IF L.stride[1] = 0 \/ L.stride[2] = 0
     THEN FwdRecord("ZeroDivisionError", "h_out", xs, <<0, 0>>, NoRows, NoRows, <<>>, <<>>)
     ELSE
       LET sizes == OutSizes(L, h, w)
           pt == Unfold(L.unfold, h, w, c)
       IN IF pt.status # "ok"
          THEN FwdRecord(pt.status, "unfold", xs, sizes, NoRows, NoRows, <<>>, <<>>)
          ELSE
            LET pk == extract_lorentz_patches(L, pt.rows, pt.width)
            IN IF pk.status # "ok"
               THEN FwdRecord(pk.status, "extract_lorentz_patches", xs, sizes, pt,
                              NoRows, <<>>, <<>>)
               ELSE
                 LET lin == linearized_kernel(L.linearized_kernel, bsz,
                                              Len(pk.rows), pk.width)
                 IN IF lin.status # "ok"
                    THEN FwdRecord(lin.status, "linearized_kernel", xs, sizes, pt, pk,
                                   <<>>, <<>>)
                    ELSE
                      LET out == View(lin.shape,
                                      <<bsz, L.output_stabilizer_size, sizes[1],
                                        sizes[2], L.out_channels>>)
                      IN IF out.status # "ok"
                         THEN FwdRecord(out.status, "view", xs, sizes, pt, pk,
                                        lin.shape, <<>>)
                         ELSE FwdRecord("ok", "return", xs, sizes, pt, pk,
                                        lin.shape, out.shape)

\* ------------------------------------------------------------------ actions
\* the keyword arguments a caller writes for the parameters in names, leaving
\* out those that equal their default
Keywords(values, names) ==
  LET keep == {p \in names : ~(p \in DOMAIN Defaults /\ values[p] = Defaults[p])}
  IN [p \in keep |-> values[p]]

Init ==
  /\ pc = "idle"
  /\ req = [cls |-> "none", args |-> <<>>, kwargs |-> <<>>]
  /\ ctor = "none"
  /\ layer = NoLayer
  /\ fwd = NoCall

Constructed(cls, args, kwargs) ==
  LET r == Call(cls, args, kwargs)
  IN /\ pc = "idle"
     /\ req' = [cls |-> cls, args |-> args, kwargs |-> kwargs]
     /\ ctor' = r.status
     /\ layer' = r.layer
     /\ pc' = IF r.status = "ok" THEN "built" ELSE "failed"
     /\ fwd' = fwd

\* GroupLorentzConv2d(input_stabilizer_size=.., output_stabilizer_size=.., ..)
Construct ==
  \E iss \in StabilizerSizes, oss \in StabilizerSizes, mf \in Manifolds,
     ic \in 1..MaxInChannels, oc \in OutChannelArgs, ks \in KernelArgs,
     geo \in GeometryArgs :
    Constructed("GroupLorentzConv2d", <<>>,
                [input_stabilizer_size |-> iss, output_stabilizer_size |-> oss,
                 manifold |-> mf, in_channels |-> ic, out_channels |-> oc,
                 kernel_size |-> ks, stride |-> geo.stride,
                 padding |-> geo.padding, dilation |-> geo.dilation,
                 bias |-> TRUE, LFC_normalize |-> FALSE])

\* a preset called with its first npos parameters after the stabilizer sizes
\* given by position and the others by keyword
ConstructPreset(cls) ==
  \E mf \in Manifolds, ic \in 1..MaxInChannels, oc \in OutChannelArgs,
     ks \in KernelArgs, geo \in GeometryArgs, npos \in 0..MaxPositional :
    LET values == [manifold |-> mf, in_channels |-> ic, out_channels |-> oc,
                   kernel_size |-> ks, stride |-> geo.stride,
                   padding |-> geo.padding, dilation |-> geo.dilation,
                   bias |-> TRUE, LFC_normalize |-> FALSE]
        args == [i \in 1..npos |-> values[Params[i + 2]]]
        names == {Params[i + 2] : i \in (npos + 1)..(Len(Params) - 2)}
    IN Constructed(cls, args, Keywords(values, names))

ConstructP4MConvZ2 == ConstructPreset("LorentzP4MConvZ2")

ConstructP4MConvP4M == ConstructPreset("LorentzP4MConvP4M")

Forward ==
  /\ pc = "built"
  /\ layer.exists
  /\ \E bsz \in BatchSizes, h \in 1..MaxDim, w \in 1..MaxDim,
        c \in 1..MaxInChannels :
       fwd' = forward(layer, bsz, h, w, c)
  /\ pc' = "called"
  /\ UNCHANGED <<req, ctor, layer>>

Next == Construct \/ ConstructP4MConvZ2 \/ ConstructP4MConvP4M \/ Forward

Spec == Init /\ [][Next]_vars

\* ------------------------------------------- extract_lorentz_patches alone
\* extract_lorentz_patches is a pure function of the layer and the patches;
\* SpecPatch applies it to one patch whose time taps are arbitrary.
PatchKernelArgs == {<<1>>, <<1, 2>>, <<2>>}
PatchManifolds == {[sqrt_k |-> s] : s \in 1..2}
TapValues == (0 - 1)..MaxTap

PatchLayer(mf, ic, ks) ==
  [input_stabilizer_size |-> 1, output_stabilizer_size |-> 8, manifold |-> mf,
   in_channels |-> ic, out_channels |-> 2, kernel_size |-> ks]

\* one patch as unfold lays it out: the time taps, then the taps of each
\* spatial channel
PatchRow(taps, ic) ==
  LET kl == Len(taps)
  IN [f \in 1..(ic * kl) |->
        IF f <= kl THEN taps[f]
        ELSE 100 * ((f - 1) \div kl) + ((f - 1) % kl) + 1]

InitPatch ==
  \E mf \in PatchManifolds, ic \in 2..MaxInChannels, ks \in PatchKernelArgs :
    LET r == Call("GroupLorentzConv2d", <<>>, PatchLayer(mf, ic, ks))
    IN \E taps \in [1..r.layer.kernel_len -> TapValues] :
         /\ pc = "patches"
         /\ req = [cls |-> "GroupLorentzConv2d", args |-> <<>>,
                   kwargs |-> PatchLayer(mf, ic, ks)]
         /\ ctor = r.status
         /\ layer = r.layer
         /\ fwd = FwdRecord("ok", "unfold", <<1, 1, 1, ic>>, <<1, 1>>,
                            [rows |-> <<PatchRow(taps, ic)>>,
                             width |-> ic * r.layer.kernel_len],
                            NoRows, <<>>, <<>>)

ExtractPatches ==
  /\ pc = "patches"
  /\ LET pk == extract_lorentz_patches(layer, fwd.patches, fwd.patches_width)
     IN fwd' = [fwd EXCEPT !.status = pk.status,
                           !.stage = "extract_lorentz_patches",
                           !.patches_pre_kernel = pk.rows,
                           !.pre_kernel_width = pk.width]
  /\ pc' = "extracted"
  /\ UNCHANGED <<req, ctor, layer>>

NextPatch == ExtractPatches

SpecPatch == InitPatch /\ [][NextPatch]_vars

\* ================================================================== claims
SupportedPairs == {<<1, 4>>, <<4, 4>>, <<1, 8>>, <<8, 8>>}

Called == fwd.status # "none" /\ pc = "called"

\* the forward call got past patch extraction
Unfolded ==
  Called /\ fwd.stage \in {"extract_lorentz_patches", "linearized_kernel", "view", "return"}

\* the forward call handed its patch vectors to the linear collaborator
HandedOver == Called /\ fwd.stage \in {"linearized_kernel", "view", "return"}

\* C1: constructing GroupLorentzConv2d with a stabilizer pair outside
\* {(1,4),(4,4),(1,8),(8,8)} fails during construction (a KeyError once the
\* parameters are initialised) and leaves no layer, so forward never runs on
\* one; with a pair of the set (and in_channels >= 2, a non-empty kernel) it
\* succeeds.
C1_StabilizerPairs ==
  /\ (ctor # "none" /\ req.cls = "GroupLorentzConv2d") =>
       LET b == req.kwargs
           pair == <<b.input_stabilizer_size, b.output_stabilizer_size>>
           ks == Pair(b.kernel_size)
           usable == b.in_channels >= 2 /\ ks[1] * ks[2] > 0
       IN /\ pair \notin SupportedPairs =>
               /\ ctor \in {"KeyError", "ZeroDivisionError"}
               /\ usable => ctor = "KeyError"
               /\ ~layer.exists
               /\ pc = "failed"
               /\ fwd = NoCall
          /\ (pair \in SupportedPairs /\ usable) => (ctor = "ok" /\ layer.exists)
          /\ ctor = "KeyError" => pair \notin SupportedPairs
  /\ layer.exists =>
       <<layer.input_stabilizer_size, layer.output_stabilizer_size>> \in SupportedPairs
  /\ fwd # NoCall => layer.exists

C1_Witness ==
  /\ req.cls = "GroupLorentzConv2d"
  /\ req.kwargs.input_stabilizer_size = 8
  /\ req.kwargs.output_stabilizer_size = 4
  /\ ctor = "KeyError"
  /\ pc = "failed"

\* C2 (as claimed): every forward call whose patch vectors the linear
\* collaborator mapped to (batch, num_patches, out_channels) returns an array
\* of shape (batch, output_stabilizer_size, H_out, W_out, out_channels).
C2_ReturnsRank5 ==
  (Called /\ fwd.stage \in {"view", "return"}) =>
    /\ fwd.status = "ok"
    /\ fwd.out_shape = <<fwd.x_shape[1], layer.output_stabilizer_size,
                         fwd.h_out, fwd.w_out, layer.out_channels>>

\* C3: whenever patch extraction succeeds, H_out and W_out are
\* floor((dim + 2*padding - dilation*(kernel-1) - 1)/stride) + 1 taken from the
\* height and the width settings respectively, each is the number of window
\* positions that fit along its axis, and extraction yields H_out*W_out
\* windows; 32 with kernel 3 gives 30 (stride 1, padding 0) and 16 (stride 2,
\* padding 1).
C3_OutputSize ==
  /\ Unfolded =>
       LET h == fwd.x_shape[2]
           w == fwd.x_shape[3]
       IN /\ fwd.h_out = ((h + 2 * layer.padding[1]
                            - layer.dilation[1] * (layer.kernel_size[1] - 1) - 1)
                           \div layer.stride[1]) + 1
          /\ fwd.w_out = ((w + 2 * layer.padding[2]
                            - layer.dilation[2] * (layer.kernel_size[2] - 1) - 1)
                           \div layer.stride[2]) + 1
          /\ fwd.h_out = Cardinality(ValidStarts(h, layer.padding[1], layer.dilation[1],
                                                 layer.kernel_size[1], layer.stride[1]))
          /\ fwd.w_out = Cardinality(ValidStarts(w, layer.padding[2], layer.dilation[2],
                                                 layer.kernel_size[2], layer.stride[2]))
          /\ Len(fwd.patches) = fwd.h_out * fwd.w_out
  /\ OutSize(32, 0, 1, 3, 1) = 30
  /\ OutSize(32, 1, 1, 3, 2) = 16
  /\ Cardinality(ValidStarts(32, 0, 1, 3, 1)) = 30
  /\ Cardinality(ValidStarts(32, 1, 1, 3, 2)) = 16

C3_Witness ==
  /\ Unfolded
  /\ fwd.x_shape[2] = fwd.x_shape[3]
  /\ layer.stride = <<1, 2>>
  /\ layer.kernel_size = <<2, 1>>
  /\ fwd.h_out = 2
  /\ fwd.w_out = 2
  /\ Len(fwd.patches) = 4

\* C4 (as claimed): the number of patches extraction produces equals
\* output_stabilizer_size * H_out * W_out.
C4_PatchCount ==
  Unfolded => Len(fwd.patches) = layer.output_stabilizer_size * fwd.h_out * fwd.w_out

RECURSIVE FlooredSquares(_, _, _)
\* sum over the first n entries t of row of max(t, s)^2
FlooredSquares(row, n, s) ==
  IF n = 0 THEN 0
  ELSE (IF row[n] > s THEN row[n] * row[n] ELSE s * s) + FlooredSquares(row, n - 1, s)

Extracted == pc = "extracted" /\ fwd.status = "ok"

\* C5: the square of the rescaled time of every patch is the sum over its
\* first kernel_len entries t of max(t, sqrt(k))^2, minus (kernel_len-1)*k; so
\* a tap below sqrt(k) counts as sqrt(k), identical taps t >= sqrt(k) give
\* kernel_len*t^2 - (kernel_len-1)*k, and taps all equal to sqrt(k) give
\* sqrt(k).
C5_TimeRescale ==
  Extracted =>
    \A l \in 1..Len(fwd.patches) :
      LET row == fwd.patches[l]
          kl == layer.kernel_len
          s == layer.manifold.sqrt_k
          time == fwd.patches_pre_kernel[l][1]
      IN /\ time[1] = "sqrt"
         /\ time[2] = FlooredSquares(row, kl, s) - (kl - 1) * s * s
         /\ (\A i \in 1..kl : row[i] = row[1]) =>
              /\ row[1] >= s => time[2] = kl * row[1] * row[1] - (kl - 1) * s * s
              /\ row[1] <= s => time = <<"sqrt", s * s>>

C5_Witness ==
  /\ Extracted
  /\ layer.kernel_len = 4
  /\ layer.manifold.sqrt_k = 2
  /\ fwd.patches[1][1] = 0 - 1
  /\ fwd.patches[1][2] = 1
  /\ fwd.patches[1][3] = 2
  /\ fwd.patches[1][4] = 3
  /\ fwd.patches_pre_kernel[1][1] = <<"sqrt", 9>>

\* value of channel ch at kernel tap j (row-major in the kernel) of window l
\* of the input, 0 where the tap lies in the padding
WindowValue(L, h, w, l, ch, j) ==
  LET ow == Cardinality(ValidStarts(w, L.padding[2], L.dilation[2],
                                    L.kernel_size[2], L.stride[2]))
      ii == ((l - 1) \div ow) * L.stride[1] - L.padding[1]
              + (j \div L.kernel_size[2]) * L.dilation[1]
      jj == ((l - 1) % ow) * L.stride[2] - L.padding[2]
              + (j % L.kernel_size[2]) * L.dilation[2]
  IN IF ii >= 0 /\ ii < h /\ jj >= 0 /\ jj < w THEN XValue(ii, jj, ch) ELSE 0

Matching == HandedOver /\ fwd.x_shape[4] = layer.in_channels

\* position (0-based) of spatial channel c, tap j in the patch vector
PatchLayout(Position(_, _)) ==
  Matching =>
    /\ fwd.pre_kernel_width = (layer.in_channels - 1) * layer.kernel_len + 1
    /\ \A l \in 1..Len(fwd.patches_pre_kernel) :
         /\ Len(fwd.patches_pre_kernel[l]) = fwd.pre_kernel_width
         /\ fwd.patches_pre_kernel[l][1][1] = "sqrt"
         /\ \A c \in 0..(layer.in_channels - 2), j \in 0..(layer.kernel_len - 1) :
              fwd.patches_pre_kernel[l][Position(c, j) + 1] =
                <<"val", WindowValue(layer, fwd.x_shape[2], fwd.x_shape[3], l, c + 1, j)>>

\* C6 (as claimed): position 0 of the patch vector is the rescaled time and
\* spatial channel c, tap j sits at position 1 + c*kernel_len + j
\* (channel-major); the width is (in_channels-1)*kernel_len + 1.
C6_ChannelMajor ==
  LET Position(c, j) == 1 + c * layer.kernel_len + j
  IN PatchLayout(Position)

\* C6 (amended): position 0 of the patch vector is the rescaled time and
\* spatial channel c, tap j sits at position 1 + j*(in_channels-1) + c
\* (tap-major: the in_channels-1 channels of one tap are contiguous); the
\* width is (in_channels-1)*kernel_len + 1.
C6_TapMajor ==
  LET Position(c, j) == 1 + j * (layer.in_channels - 1) + c
  IN PatchLayout(Position)

C6_Witness ==
  /\ Matching
  /\ layer.in_channels = 3
  /\ layer.kernel_size = <<1, 2>>
  /\ fwd.x_shape[2] = 1
  /\ fwd.x_shape[3] = 2
  /\ layer.padding = <<0, 0>>
  /\ layer.stride = <<1, 1>>
  /\ layer.dilation = <<1, 1>>
  /\ fwd.patches_pre_kernel[1] =
       <<<<"sqrt", 261>>, <<"val", 111>>, <<"val", 211>>, <<"val", 112>>, <<"val", 212>>>>

\* C7 (as claimed): a forward call whose input has a channel count other
\* than in_channels ends in an error without the layer handing a patch
\* vector to the linear collaborator.
C7_ChannelMismatchRaises ==
  (Called /\ fwd.x_shape[4] # layer.in_channels) =>
    /\ fwd.status # "ok"
    /\ ~HandedOver

\* the parameters a preset call means: the stabilizer sizes of the preset and
\* every other value bound to the parameter it was given for, positional
\* values counting from manifold
PresetMeaning(cls, args, kwargs) ==
  [p \in ParamNames |->
     IF p = "input_stabilizer_size" THEN (IF cls = "LorentzP4MConvZ2" THEN 1 ELSE 8)
     ELSE IF p = "output_stabilizer_size" THEN 8
     ELSE IF ParamIndex(p) - 2 <= Len(args) THEN args[ParamIndex(p) - 2]
     ELSE IF p \in DOMAIN kwargs THEN kwargs[p]
     ELSE Defaults[p]]

\* C8 (as claimed): a preset call builds what GroupLorentzConv2d builds from
\* the preset's stabilizer sizes and the other parameters as given, by
\* position or by keyword.
C8_PresetForwards ==
  (ctor # "none" /\ req.cls \in {"LorentzP4MConvZ2", "LorentzP4MConvP4M"}) =>
    LET r == GroupLorentzConv2d(PresetMeaning(req.cls, req.args, req.kwargs))
    IN ctor = r.status /\ layer = r.layer

\* C9 (as claimed): no layer with a non-positive kernel size, stride or
\* dilation, or a negative padding, is ever constructed or reaches forward.
C9_GeometryValidated ==
  layer.exists =>
    \A i \in 1..2 :
      /\ layer.kernel_size[i] > 0
      /\ layer.stride[i] > 0
      /\ layer.dilation[i] > 0
      /\ layer.padding[i] >= 0

\* C10: the radicand of every patch is at least k, whatever the time taps
\* (zero and negative ones included), so the rescaled time is at least
\* sqrt(k) and never the square root of a negative number.
C10_RadicandAtLeastK ==
  Extracted =>
    \A l \in 1..Len(fwd.patches_pre_kernel) :
      LET time == fwd.patches_pre_kernel[l][1]
          s == layer.manifold.sqrt_k
      IN time[1] = "sqrt" /\ time[2] >= s * s

C10_Witness ==
  /\ Extracted
  /\ layer.kernel_len = 4
  /\ layer.manifold.sqrt_k = 2
  /\ \E i \in 1..4 : fwd.patches[1][i] = 0
  /\ \E i \in 1..4 : fwd.patches[1][i] < 0
  /\ fwd.patches_pre_kernel[1][1] = <<"sqrt", 4>>

====
